---- MODULE Spec2Model ----
(***************************************************************************)
(* RateBasedRuleProvider (src/src/rate_based_rule_provider.py): the        *)
(* create / update / delete handlers of a WAF rate-based rule, the         *)
(* predicate reconciliation inside update, and the change-token waiter     *)
(* wait_on_status.  Every call on the boto3 client is one step whose       *)
(* outcome (answer or ClientError) is chosen by the service.  An exception *)
(* no handler catches ends the invocation in pc = "aborted".               *)
(***************************************************************************)
EXTENDS Integers, Sequences, FiniteSets, TLC

(***************************************************************************)
(* Bounds of the model.                                                    *)
(***************************************************************************)
\* longest requested Updates list
MaxNew == 2
\* longest previous MatchPredicates list
MaxOld == 2
\* arguments of a direct wait_on_status call: interval and max_interval are
\* multiples of IntervalUnit, max_retries ranges over 0..MaxRetriesArg
IntervalUnit == 10
MaxIntervalUnits == 4
MaxMaxIntervalUnits == 5
MaxRetriesArg == 3

(***************************************************************************)
(* Program constants: the defaults of wait_on_status.                      *)
(***************************************************************************)
DefaultInterval == 30
DefaultMaxInterval == 30
DefaultMaxRetries == 15

Min(a, b) == IF a < b THEN a ELSE b

\* Python's None
NoneVal == [None |-> TRUE]

(***************************************************************************)
(* Predicates.  A predicate is a mapping from a subset of the three field  *)
(* names to values; a requested predicate may lack fields.                 *)
(***************************************************************************)
required_fields == {"Negated", "Type", "DataId"}
DataIds == {"d1", "d2"}
Types == {"IPMatch"}
ValidPredicates == [Negated : BOOLEAN, Type : Types, DataId : DataIds]
InvalidPredicates == {[Negated |-> TRUE, DataId |-> "d1"], [Type |-> "IPMatch"]}
Predicates == ValidPredicates \cup InvalidPredicates

SeqsUpTo(S, n) == UNION {[1..k -> S] : k \in 0..n}

\* old_properties['MatchPredicates']: absent, a list of predicates, or a
\* single predicate object (a dict, iterated by its keys)
OldMatchPredicates ==
    {[kind |-> "absent", items |-> <<>>]}
    \cup {[kind |-> "list", items |-> s] : s \in SeqsUpTo(ValidPredicates, MaxOld)}
    \cup {[kind |-> "dict", items |-> <<"Negated", "Type", "DataId">>]}

\* properties['Updates']: absent or a list of predicates
RequestedUpdates ==
    {[present |-> FALSE, list |-> <<>>]}
    \cup {[present |-> TRUE, list |-> s] : s \in SeqsUpTo(Predicates, MaxNew)}

VARIABLES
    request_type,          \* "Create", "Update", "Delete", or "Wait" (direct call of wait_on_status)
    Updates,               \* properties['Updates']
    MatchPredicates,       \* old_properties['MatchPredicates']
    pc,                    \* position of the invocation
    error,                 \* the exception that aborted the invocation, or "none"
    physical_resource_id,
    signals,               \* the success()/fail() calls made, in order
    calls,                 \* the calls made on client and the waits run, in order
    next_token,            \* number of change tokens handed out by get_change_token
    ChangeToken,           \* the token held by the running handler
    remove_all,            \* argument of the running update
    update_caller,         \* who called the running update
    updates,               \* the payload built by update (lines 125-127)
    status,                \* the local variable status of create, update and delete
    wait,                  \* frame of the running wait_on_status
    wait_caller,           \* who called the running wait_on_status
    wait_args,             \* the arguments of the outermost wait_on_status call
    wait_result,           \* what the last wait_on_status returned
    polls,                 \* get_change_token_status calls of the running wait
    sleeps,                \* intervals slept by the running wait, in order
    insync_polls,          \* polls of the running wait that answered INSYNC
    polled                 \* some get_change_token_status call was made in this invocation

vars == <<request_type, Updates, MatchPredicates, pc, error, physical_resource_id,
          signals, calls, next_token, ChangeToken, remove_all, update_caller, updates,
          status, wait, wait_caller, wait_args, wait_result, polls, sleeps,
          insync_polls, polled>>

inputVars == <<request_type, Updates, MatchPredicates>>
waitVars == <<wait, wait_caller, wait_args, wait_result, polls, sleeps, insync_polls, polled>>

NoStatus == [create |-> NoneVal, update |-> NoneVal, delete |-> NoneVal]
NoUpdates == [RuleId |-> "none", Updates |-> <<<<>>, <<>>>>]
NoWait == [change_token |-> 0, current_retry |-> 0, interval |-> DefaultInterval,
           max_interval |-> DefaultMaxInterval, max_retries |-> DefaultMaxRetries]

Signal(kind, reason) == [signal |-> kind, reason |-> reason]

\* an entry of calls; a wait is entered once, when it returns, with its outcome
Call(op, token, result) == [op |-> op, ChangeToken |-> token, result |-> result]

(***************************************************************************)
(* wait_on_status (lines 166-189).                                         *)
(***************************************************************************)
ChangeTokenStatuses == {"PROVISIONED", "PENDING", "INSYNC"}
StatusResponses == ChangeTokenStatuses \cup {"ClientError"}

\* a waiter that takes every status but PENDING for the terminal one
NotInSync_OnlyPending(ChangeTokenStatus) == ChangeTokenStatus = "PENDING"

\* line 170
NotInSync(ChangeTokenStatus) == ChangeTokenStatus # "INSYNC"

\* line 171
RetriesExhausted(current_retry, max_retries) == current_retry >= max_retries

\* line 184
NextInterval(interval, max_interval) == Min(interval + interval, max_interval)

\* lines 182-184: the recursive call passes current_retry and interval only;
\* max_interval and max_retries take their defaults again
RecursiveCall(w) ==
    [change_token |-> w.change_token,
     current_retry |-> w.current_retry + 1,
     interval |-> NextInterval(w.interval, w.max_interval),
     max_interval |-> DefaultMaxInterval,
     max_retries |-> DefaultMaxRetries]

\* lines 174-177
MaxRetriesReached == [Success |-> FALSE, Reason |-> "MaxRetries"]
\* line 186
InSync == [Success |-> TRUE, Reason |-> ""]

\* where a handler continues once wait_on_status has returned
AfterWait(caller) ==
    CASE caller = "create" -> "create_after_wait"
      [] caller = "update" -> "update_after_wait"
      [] caller = "delete" -> "delete_after_wait"
      [] OTHER -> "done"

\* a handler that waits on the first change token of the invocation
CallWait_FirstToken(caller, change_token) ==
    /\ wait' = [NoWait EXCEPT !.change_token = 1]
    /\ wait_args' = [NoWait EXCEPT !.change_token = 1]
    /\ wait_caller' = caller
    /\ polls' = 0
    /\ sleeps' = <<>>
    /\ insync_polls' = 0
    /\ UNCHANGED <<wait_result, polled>>

\* the entry of wait_on_status(change_token, current_retry=0) with the
\* default interval, max_interval and max_retries (lines 47, 134, 153);
\* change_token is response['ChangeToken'], the token of the request
CallWait(caller, change_token) ==
    /\ wait' = [NoWait EXCEPT !.change_token = change_token]
    /\ wait_args' = [NoWait EXCEPT !.change_token = change_token]
    /\ wait_caller' = caller
    /\ polls' = 0
    /\ sleeps' = <<>>
    /\ insync_polls' = 0
    /\ UNCHANGED <<wait_result, polled>>

\* a return of wait_on_status.  A handler calls it as status =
\* self.wait_on_status(...) (lines 47, 134, 153): the result lands in the
\* caller's status and the frames of the wait are gone.  After a direct call
\* the queries and sleeps of the wait stay on record.
ReturnFromWait(result, outcome, response) ==
    /\ wait_result' = result
    /\ calls' = Append(calls, Call("wait_on_status", wait.change_token, outcome))
    /\ pc' = AfterWait(wait_caller)
    /\ IF wait_caller \in DOMAIN status
       THEN /\ status' = [status EXCEPT ![wait_caller] = result]
            /\ wait' = NoWait
            /\ polls' = 0
            /\ sleeps' = <<>>
            /\ insync_polls' = 0
       ELSE /\ polls' = polls + 1
            /\ insync_polls' = insync_polls + (IF response = "INSYNC" THEN 1 ELSE 0)
            /\ UNCHANGED <<status, wait, sleeps>>

\* one frame of wait_on_status: one status query, then return or sleep and recurse
wait_on_status ==
    /\ pc = "wait_on_status"
    /\ \E response \in StatusResponses :
         /\ polled' = TRUE
         /\ IF response = "ClientError"
            THEN \* lines 187-189
                 /\ physical_resource_id' = "failed-to-create"
                 /\ signals' = Append(signals, Signal("fail", "ClientError"))
                 /\ ReturnFromWait(NoneVal, "ClientError", response)
            ELSE IF NotInSync(response)
            THEN IF RetriesExhausted(wait.current_retry, wait.max_retries)
                 THEN /\ ReturnFromWait(MaxRetriesReached, "MaxRetries", response)
                      /\ UNCHANGED <<physical_resource_id, signals>>
                 ELSE /\ polls' = polls + 1
                      /\ sleeps' = Append(sleeps, wait.interval)
                      /\ wait' = RecursiveCall(wait)
                      /\ UNCHANGED <<wait_result, pc, physical_resource_id, signals,
                                     calls, status, insync_polls>>
            ELSE /\ ReturnFromWait(InSync, "INSYNC", response)
                 /\ UNCHANGED <<physical_resource_id, signals>>
    /\ UNCHANGED <<inputVars, error, next_token, ChangeToken, remove_all,
                   update_caller, updates, wait_caller, wait_args>>

(***************************************************************************)
(* A direct call of wait_on_status with current_retry = 0 and arbitrary    *)
(* interval, max_interval and max_retries.                                 *)
(***************************************************************************)
WaitArguments ==
    [change_token : {1},
     current_retry : {0},
     interval : {IntervalUnit * k : k \in 1..MaxIntervalUnits},
     max_interval : {IntervalUnit * k : k \in 1..MaxMaxIntervalUnits},
     max_retries : 0..MaxRetriesArg]

InitWait ==
    /\ request_type = "Wait"
    /\ Updates = [present |-> FALSE, list |-> <<>>]
    /\ MatchPredicates = [kind |-> "absent", items |-> <<>>]
    /\ pc = "wait_on_status"
    /\ error = "none"
    /\ physical_resource_id = "rule-0"
    /\ signals = <<>>
    /\ calls = <<>>
    /\ next_token = 1
    /\ ChangeToken = 1
    /\ remove_all = FALSE
    /\ update_caller = "none"
    /\ updates = NoUpdates
    /\ status = NoStatus
    /\ wait_args \in WaitArguments
    /\ wait = wait_args
    /\ wait_caller = "none"
    /\ wait_result = NoneVal
    /\ polls = 0
    /\ sleeps = <<>>
    /\ insync_polls = 0
    /\ polled = FALSE

NextWait == wait_on_status

SpecWait == InitWait /\ [][NextWait]_vars

WaitReturned == pc # "wait_on_status"

\* C1: with max_retries passed by the caller and a status that never becomes
\* INSYNC, wait_on_status returns Success = False after exactly
\* max_retries + 1 status queries and max_retries sleeps, and it never
\* queries the status more often than max_retries + 1 times.
C1_PollsBoundedByMaxRetries ==
    /\ polls <= wait_args.max_retries + 1
    /\ (WaitReturned /\ wait_result = MaxRetriesReached)
         => /\ polls = wait_args.max_retries + 1
            /\ Len(sleeps) = wait_args.max_retries

\* C2: for interval < max_interval as passed by the caller, the first sleep
\* lasts interval and every next sleep lasts min(2 x previous, max_interval),
\* with the caller's max_interval.
C2_IntervalDoublesUpToCallersMax ==
    wait_args.interval < wait_args.max_interval
      => /\ (sleeps # <<>> => sleeps[1] = wait_args.interval)
         /\ \A i \in 1..(Len(sleeps) - 1) :
                sleeps[i + 1] = Min(2 * sleeps[i], wait_args.max_interval)

\* C7: wait_on_status returns Success = True exactly when one of its status
\* queries answered INSYNC, and the first INSYNC answer ends it: no query and
\* no sleep follows that answer.
C7_SuccessIffInSync ==
    /\ (wait_result = InSync) <=> (insync_polls > 0)
    /\ insync_polls <= 1
    /\ insync_polls = 1 => (WaitReturned /\ Len(sleeps) = polls - 1)
    /\ (WaitReturned /\ wait_result # InSync) => wait_result \in {MaxRetriesReached, NoneVal}

\* C7 witness: a wait that slept at least once and then saw INSYNC
C7_Witness ==
    /\ WaitReturned
    /\ wait_result = InSync
    /\ insync_polls = 1
    /\ polls > 1


(***************************************************************************)
(* The predicate reconciliation of update (lines 67-120).                  *)
(***************************************************************************)
\* line 79: old_predicates is {} when MatchPredicates is absent
old_predicates ==
    IF MatchPredicates.kind = "absent" THEN [kind |-> "dict", items |-> <<>>]
    ELSE MatchPredicates

\* lines 74-77
missing_fields(kwargs) == required_fields \ DOMAIN kwargs

\* lines 67-72: the loop returns in its first iteration, whatever it finds;
\* an empty collection yields None; iterating a dict yields its keys, and
\* indexing a key (a str) with 'DataId' raises TypeError
find_old_predicate(new_pred, old_preds) ==
    IF old_preds.items = <<>> THEN [raised |-> FALSE, value |-> NoneVal]
    ELSE IF old_preds.kind = "dict" THEN [raised |-> TRUE, value |-> NoneVal]
    ELSE IF new_pred.DataId = old_preds.items[1].DataId
         THEN [raised |-> FALSE, value |-> old_preds.items[1]]
         ELSE [raised |-> FALSE, value |-> NoneVal]

\* line 96, old_predicates.pop(old_predicate, None): list.pop accepts one
\* argument at most (TypeError); dict.pop of an empty dict returns the
\* default; dict.pop of a non-empty dict hashes the key (TypeError for a
\* dict key) and returns the default for a key that is not present
PopRaises(old_preds, old_predicate) ==
    \/ old_preds.kind = "list"
    \/ old_preds.kind = "dict" /\ old_preds.items # <<>> /\ old_predicate # NoneVal

Delete(p) == [Action |-> "DELETE", Predicate |-> p]
Insert(p) == [Action |-> "INSERT", Predicate |-> p]

\* lines 90-113: the loop over the requested predicates, from index i on
RECURSIVE ReconcileLoop(_, _, _, _, _)
ReconcileLoop(new_predicates, i, old_preds, deletes, inserts) ==
    IF i > Len(new_predicates)
    THEN [outcome |-> "ok", deletes |-> deletes, inserts |-> inserts]
    ELSE LET new_predicate == new_predicates[i]
             missing == missing_fields(new_predicate)
             found == find_old_predicate(new_predicate, old_preds)
             old_predicate == found.value
         IN  IF missing # {}
             THEN [outcome |-> "fail", deletes |-> deletes, inserts |-> inserts]
             ELSE IF found.raised \/ PopRaises(old_preds, old_predicate)
             THEN [outcome |-> "TypeError", deletes |-> deletes, inserts |-> inserts]
             ELSE IF old_predicate # NoneVal /\ new_predicate # old_predicate
             THEN ReconcileLoop(new_predicates, i + 1, old_preds,
                                Append(deletes, Delete(old_predicate)),
                                Append(inserts, Insert(new_predicate)))
             ELSE IF old_predicate = NoneVal
             THEN ReconcileLoop(new_predicates, i + 1, old_preds,
                                deletes, Append(inserts, Insert(new_predicate)))
             ELSE ReconcileLoop(new_predicates, i + 1, old_preds, deletes, inserts)

\* an update without the loop over the previous predicates left
OrphanDeletes_None(old_preds) == <<>>

\* lines 116-120: one DELETE for every element left in old_predicates
OrphanDeletes(old_preds) ==
    [k \in 1..Len(old_preds.items) |-> Delete(old_preds.items[k])]

\* an update that reads and matches the requested list even for a full removal
Reconcile_IgnoresRemoveAll(requested, old_preds, removeAll) ==
    IF ~requested.present
    THEN [outcome |-> "KeyError", deletes |-> <<>>, inserts |-> <<>>]
    ELSE LET r == ReconcileLoop(requested.list, 1, old_preds, <<>>, <<>>)
         IN  IF r.outcome = "ok"
             THEN [r EXCEPT !.deletes = r.deletes \o OrphanDeletes(old_preds)]
             ELSE r

\* lines 79-120: the delete and insert lists of update, or how it ends early
Reconcile(requested, old_preds, removeAll) ==
    IF removeAll
    THEN [outcome |-> "ok", deletes |-> OrphanDeletes(old_preds), inserts |-> <<>>]
    ELSE IF ~requested.present
    THEN [outcome |-> "KeyError", deletes |-> <<>>, inserts |-> <<>>]
    ELSE LET r == ReconcileLoop(requested.list, 1, old_preds, <<>>, <<>>)
         IN  IF r.outcome = "ok"
             THEN [r EXCEPT !.deletes = r.deletes \o OrphanDeletes(old_preds)]
             ELSE r

(***************************************************************************)
(* The calls on the service.                                               *)
(***************************************************************************)
ServiceOutcomes == {"ok", "ClientError"}
DeleteOutcomes == ServiceOutcomes \cup {"WAFNonexistentItemException"}

\* an exception no except clause of the handlers catches
Abort(exception) ==
    /\ pc' = "aborted"
    /\ error' = exception

\* an update after which every caller but create goes on to delete the rule
AfterUpdate_FallsThrough(caller) ==
    CASE caller = "create" -> "create_after_update"
      [] OTHER -> "delete_get_change_token"

\* where the caller of update continues once update has returned
AfterUpdate(caller) ==
    CASE caller = "create" -> "create_after_update"
      [] caller = "delete" -> "delete_get_change_token"
      [] OTHER -> "done"

(***************************************************************************)
(* handler (lines 198-199): the framework dispatches on the request type.  *)
(***************************************************************************)
handler ==
    /\ pc = "handler"
    /\ pc' = CASE request_type = "Create" -> "create"
               [] request_type = "Update" -> "update"
               [] OTHER -> "delete"
    /\ remove_all' = FALSE
    /\ update_caller' = "handler"
    /\ UNCHANGED <<inputVars, error, physical_resource_id, signals, calls, next_token,
                   ChangeToken, updates, status, waitVars>>

(***************************************************************************)
(* create (lines 35-64).                                                   *)
(***************************************************************************)
\* an except clause that reports the failure but leaves the identifier alone
CreateClientError_NoMark ==
    /\ signals' = Append(signals, Signal("fail", "ClientError"))
    /\ pc' = "done"
    /\ UNCHANGED physical_resource_id

\* lines 62-64
CreateClientError ==
    /\ physical_resource_id' = "failed-to-create"
    /\ signals' = Append(signals, Signal("fail", "ClientError"))
    /\ pc' = "done"

\* lines 36-42
create ==
    /\ pc = "create"
    /\ \E result \in ServiceOutcomes :
         IF result = "ok"
         THEN /\ ChangeToken' = next_token
              /\ next_token' = next_token + 1
              /\ calls' = Append(calls, Call("get_change_token", next_token, "ok"))
              /\ pc' = "create_rate_based_rule"
              /\ UNCHANGED <<physical_resource_id, signals>>
         ELSE /\ calls' = Append(calls, Call("get_change_token", 0, result))
              /\ CreateClientError
              /\ UNCHANGED <<ChangeToken, next_token>>
    /\ UNCHANGED <<inputVars, error, remove_all, update_caller, updates, status, waitVars>>

\* lines 43-47
create_rate_based_rule ==
    /\ pc = "create_rate_based_rule"
    /\ \E result \in ServiceOutcomes :
         /\ calls' = Append(calls, Call("create_rate_based_rule", ChangeToken, result))
         /\ IF result = "ok"
            THEN /\ physical_resource_id' = "rule-1"
                 /\ CallWait("create", ChangeToken)
                 /\ pc' = "wait_on_status"
                 /\ UNCHANGED signals
            ELSE /\ CreateClientError
                 /\ UNCHANGED waitVars
    /\ UNCHANGED <<inputVars, error, next_token, ChangeToken, remove_all, update_caller,
                   updates, status>>

\* a create that runs update whether or not the request carries Updates
create_after_wait_AlwaysUpdates ==
    /\ pc = "create_after_wait"
    /\ IF status.create = NoneVal
       THEN /\ Abort("TypeError")
            /\ UNCHANGED <<signals, remove_all, update_caller>>
       ELSE IF status.create.Success
       THEN IF TRUE
            THEN /\ pc' = "update"
                 /\ remove_all' = FALSE
                 /\ update_caller' = "create"
                 /\ UNCHANGED <<signals, error>>
            ELSE /\ signals' = Append(signals, Signal("success", "Create is done."))
                 /\ pc' = "done"
                 /\ UNCHANGED <<error, remove_all, update_caller>>
       ELSE /\ signals' = Append(signals, Signal("fail", status.create.Reason))
            /\ pc' = "done"
            /\ UNCHANGED <<error, remove_all, update_caller>>
    /\ UNCHANGED <<inputVars, physical_resource_id, calls, next_token, ChangeToken,
                   updates, status, waitVars>>

\* lines 49-61: status['Success'] of None raises TypeError
create_after_wait ==
    /\ pc = "create_after_wait"
    /\ IF status.create = NoneVal
       THEN /\ Abort("TypeError")
            /\ UNCHANGED <<signals, remove_all, update_caller>>
       ELSE IF status.create.Success
       THEN IF Updates.present
            THEN /\ pc' = "update"
                 /\ remove_all' = FALSE
                 /\ update_caller' = "create"
                 /\ UNCHANGED <<signals, error>>
            ELSE /\ signals' = Append(signals, Signal("success", "Create is done."))
                 /\ pc' = "done"
                 /\ UNCHANGED <<error, remove_all, update_caller>>
       ELSE /\ signals' = Append(signals, Signal("fail", status.create.Reason))
            /\ pc' = "done"
            /\ UNCHANGED <<error, remove_all, update_caller>>
    /\ UNCHANGED <<inputVars, physical_resource_id, calls, next_token, ChangeToken,
                   updates, status, waitVars>>

\* lines 54-56: after self.update() returned, create tests its own status again
create_after_update ==
    /\ pc = "create_after_update"
    /\ IF status.create.Success
       THEN signals' = Append(signals, Signal("success", "Create and update are done."))
       ELSE UNCHANGED signals
    /\ pc' = "done"
    /\ UNCHANGED <<inputVars, error, physical_resource_id, calls, next_token, ChangeToken,
                   remove_all, update_caller, updates, status, waitVars>>

(***************************************************************************)
(* update (lines 66-142).                                                  *)
(***************************************************************************)
\* lines 79-127
update ==
    /\ pc = "update"
    /\ LET r == Reconcile(Updates, old_predicates, remove_all)
       IN  CASE r.outcome = "ok" ->
                  /\ updates' = [RuleId |-> physical_resource_id,
                                 Updates |-> <<r.deletes, r.inserts>>]
                  /\ pc' = "update_get_change_token"
                  /\ UNCHANGED <<signals, error>>
             [] r.outcome = "fail" ->
                  /\ signals' = Append(signals, Signal("fail", "MissingFields"))
                  /\ pc' = AfterUpdate(update_caller)
                  /\ UNCHANGED <<updates, error>>
             [] OTHER ->
                  /\ Abort(r.outcome)
                  /\ UNCHANGED <<updates, signals>>
    /\ UNCHANGED <<inputVars, physical_resource_id, calls, next_token, ChangeToken,
                   remove_all, update_caller, status, waitVars>>

\* an except clause that tries the change again
UpdateClientError_Retry ==
    /\ signals' = Append(signals, Signal("fail", "ClientError"))
    /\ pc' = "update_get_change_token"

\* lines 141-142
UpdateClientError ==
    /\ signals' = Append(signals, Signal("fail", "ClientError"))
    /\ pc' = AfterUpdate(update_caller)

\* line 130
update_get_change_token ==
    /\ pc = "update_get_change_token"
    /\ \E result \in ServiceOutcomes :
         IF result = "ok"
         THEN /\ ChangeToken' = next_token
              /\ next_token' = next_token + 1
              /\ calls' = Append(calls, Call("get_change_token", next_token, "ok"))
              /\ pc' = "update_rate_based_rule"
              /\ UNCHANGED signals
         ELSE /\ calls' = Append(calls, Call("get_change_token", 0, result))
              /\ UpdateClientError
              /\ UNCHANGED <<ChangeToken, next_token>>
    /\ UNCHANGED <<inputVars, error, physical_resource_id, remove_all, update_caller,
                   updates, status, waitVars>>

\* lines 132-134
update_rate_based_rule ==
    /\ pc = "update_rate_based_rule"
    /\ \E result \in ServiceOutcomes :
         /\ calls' = Append(calls, Call("update_rate_based_rule", ChangeToken, result))
         /\ IF result = "ok"
            THEN /\ CallWait("update", ChangeToken)
                 /\ pc' = "wait_on_status"
                 /\ UNCHANGED signals
            ELSE /\ UpdateClientError
                 /\ UNCHANGED waitVars
    /\ UNCHANGED <<inputVars, error, physical_resource_id, next_token, ChangeToken,
                   remove_all, update_caller, updates, status>>

\* an update that takes a missing wait result for a failed wait and returns
update_after_wait_NoneAsFailure ==
    /\ pc = "update_after_wait"
    /\ signals' = IF status.update = NoneVal THEN signals
                  ELSE Append(signals,
                              IF status.update.Success
                              THEN Signal("success", "Update is done.")
                              ELSE Signal("fail", status.update.Reason))
    /\ pc' = AfterUpdate(update_caller)
    /\ UNCHANGED <<inputVars, error, physical_resource_id, calls, next_token, ChangeToken,
                   remove_all, update_caller, updates, status, waitVars>>

\* lines 136-140
update_after_wait ==
    /\ pc = "update_after_wait"
    /\ IF status.update = NoneVal
       THEN /\ Abort("TypeError")
            /\ UNCHANGED signals
       ELSE /\ signals' = Append(signals,
                                 IF status.update.Success
                                 THEN Signal("success", "Update is done.")
                                 ELSE Signal("fail", status.update.Reason))
            /\ pc' = AfterUpdate(update_caller)
            /\ UNCHANGED error
    /\ UNCHANGED <<inputVars, physical_resource_id, calls, next_token, ChangeToken,
                   remove_all, update_caller, updates, status, waitVars>>

(***************************************************************************)
(* delete (lines 144-164).                                                 *)
(***************************************************************************)
\* line 145
delete ==
    /\ pc = "delete"
    /\ pc' = "update"
    /\ remove_all' = TRUE
    /\ update_caller' = "delete"
    /\ UNCHANGED <<inputVars, error, physical_resource_id, signals, calls, next_token,
                   ChangeToken, updates, status, waitVars>>

\* an except clause that reports every service error of delete as a failure
DeleteClientError_AlwaysFail(result) ==
    /\ signals' = Append(signals, Signal("fail", "ClientError"))
    /\ pc' = "done"

\* lines 160-164
DeleteClientError(result) ==
    /\ signals' = Append(signals,
                         IF result = "WAFNonexistentItemException"
                         THEN Signal("success", "none")
                         ELSE Signal("fail", "ClientError"))
    /\ pc' = "done"

\* lines 147-150
delete_get_change_token ==
    /\ pc = "delete_get_change_token"
    /\ \E result \in ServiceOutcomes :
         IF result = "ok"
         THEN /\ ChangeToken' = next_token
              /\ next_token' = next_token + 1
              /\ calls' = Append(calls, Call("get_change_token", next_token, "ok"))
              /\ pc' = "delete_rate_based_rule"
              /\ UNCHANGED signals
         ELSE /\ calls' = Append(calls, Call("get_change_token", 0, result))
              /\ DeleteClientError(result)
              /\ UNCHANGED <<ChangeToken, next_token>>
    /\ UNCHANGED <<inputVars, error, physical_resource_id, remove_all, update_caller,
                   updates, status, waitVars>>

\* lines 151-153
delete_rate_based_rule ==
    /\ pc = "delete_rate_based_rule"
    /\ \E result \in DeleteOutcomes :
         /\ calls' = Append(calls, Call("delete_rate_based_rule", ChangeToken, result))
         /\ IF result = "ok"
            THEN /\ CallWait("delete", ChangeToken)
                 /\ pc' = "wait_on_status"
                 /\ UNCHANGED signals
            ELSE /\ DeleteClientError(result)
                 /\ UNCHANGED waitVars
    /\ UNCHANGED <<inputVars, error, physical_resource_id, next_token, ChangeToken,
                   remove_all, update_caller, updates, status>>

\* lines 155-159
delete_after_wait ==
    /\ pc = "delete_after_wait"
    /\ IF status.delete = NoneVal
       THEN /\ Abort("TypeError")
            /\ UNCHANGED signals
       ELSE /\ signals' = Append(signals,
                                 IF status.delete.Success
                                 THEN Signal("success", "Delete is done.")
                                 ELSE Signal("fail", status.delete.Reason))
            /\ pc' = "done"
            /\ UNCHANGED error
    /\ UNCHANGED <<inputVars, physical_resource_id, calls, next_token, ChangeToken,
                   remove_all, update_caller, updates, status, waitVars>>

(***************************************************************************)
(* One handler invocation.                                                 *)
(***************************************************************************)
Init ==
    /\ request_type \in {"Create", "Update", "Delete"}
    /\ Updates \in RequestedUpdates
    /\ MatchPredicates \in OldMatchPredicates
    /\ pc = "handler"
    /\ error = "none"
    /\ physical_resource_id = IF request_type = "Create" THEN "none" ELSE "rule-0"
    /\ signals = <<>>
    /\ calls = <<>>
    /\ next_token = 1
    /\ ChangeToken = 0
    /\ remove_all = FALSE
    /\ update_caller = "none"
    /\ updates = NoUpdates
    /\ status = NoStatus
    /\ wait = NoWait
    /\ wait_caller = "none"
    /\ wait_args = NoWait
    /\ wait_result = NoneVal
    /\ polls = 0
    /\ sleeps = <<>>
    /\ insync_polls = 0
    /\ polled = FALSE

Next ==
    \/ handler
    \/ create
    \/ create_rate_based_rule
    \/ create_after_wait
    \/ create_after_update
    \/ update
    \/ update_get_change_token
    \/ update_rate_based_rule
    \/ update_after_wait
    \/ delete
    \/ delete_get_change_token
    \/ delete_rate_based_rule
    \/ delete_after_wait
    \/ wait_on_status

Spec == Init /\ [][Next]_vars


(***************************************************************************)
(* Properties of a handler invocation.                                     *)
(***************************************************************************)
Finished == pc \in {"done", "aborted"}

LastSignal == signals[Len(signals)]

SeqRange(q) == {q[k] : k \in 1..Len(q)}

\* a call on the service raised a service error, or a wait ran out of retries
FailedCalls == {c \in SeqRange(calls) : c.result \in {"ClientError", "MaxRetries"}}

\* C3: when a service call raised a service error or a wait exhausted its
\* retries during a create, update or delete invocation, the last completion
\* signal of the invocation is fail (a does-not-exist answer to
\* delete_rate_based_rule is not such an error).
C3_FailureEndsInFail ==
    (Finished /\ FailedCalls # {})
      => /\ signals # <<>>
         /\ LastSignal.signal = "fail"

\* the update of an Update request has run its reconciliation
Reconciled == request_type = "Update" /\ pc \notin {"handler", "update"}

AllValid(list) == \A k \in 1..Len(list) : missing_fields(list[k]) = {}

\* update has built its payload (lines 125-127)
Emitted == updates # NoUpdates

PreviousSet == SeqRange(old_predicates.items)
RequestedSet == SeqRange(Updates.list)
DeletedSet == {op.Predicate : op \in SeqRange(updates.Updates[1])}
InsertedSet == {op.Predicate : op \in SeqRange(updates.Updates[2])}

\* C4: for every previous predicate sequence and every list of valid
\* requested predicates, update (remove_all = false) emits a change set, and
\* removing its DELETEs from the previous set and then adding its INSERTs
\* gives exactly the requested set.
C4_DeleteThenInsertYieldsRequested ==
    (Reconciled /\ Updates.present /\ AllValid(Updates.list)
       /\ MatchPredicates.kind \in {"absent", "list"})
      => /\ Emitted
         /\ (PreviousSet \ DeletedSet) \cup InsertedSet = RequestedSet

\* C5: update emits a minimal change set: a requested predicate equal in
\* every field to a predicate anywhere in the previous sequence gets neither
\* a DELETE nor an INSERT in the emitted change set.
C5_IdenticalPredicateUntouched ==
    (Reconciled /\ Updates.present /\ AllValid(Updates.list)
       /\ MatchPredicates.kind = "list")
      => \A p \in RequestedSet \cap PreviousSet :
            /\ Emitted
            /\ p \notin DeletedSet
            /\ p \notin InsertedSet

\* C6: when some requested predicate lacks Negated, Type or DataId, update
\* (remove_all = false) signals fail for the missing fields and calls the
\* service not at all, however many valid predicates precede that predicate.
C6_InvalidPredicateFailsWithoutCalls ==
    (Reconciled /\ Updates.present /\ ~AllValid(Updates.list))
      => /\ signals = <<Signal("fail", "MissingFields")>>
         /\ calls = <<>>
         /\ ~polled

\* C8: in a delete invocation delete_rate_based_rule is called only after
\* update_rate_based_rule was called with the full-removal change set and
\* the wait on that change's token saw INSYNC.
C8_DeleteOnlyAfterPredicatesDetached ==
    request_type = "Delete"
      => \A i \in 1..Len(calls) :
            calls[i].op = "delete_rate_based_rule"
              => \E j \in 1..(i - 1) :
                    /\ calls[j].op = "update_rate_based_rule"
                    /\ calls[j].result = "ok"
                    /\ updates.Updates = <<OrphanDeletes(old_predicates), <<>>>>
                    /\ \E k \in (j + 1)..(i - 1) :
                          /\ calls[k].op = "wait_on_status"
                          /\ calls[k].ChangeToken = calls[j].ChangeToken
                          /\ calls[k].result = "INSYNC"

RuleCreated ==
    \E c \in SeqRange(calls) : c.op = "create_rate_based_rule" /\ c.result = "ok"

\* C9: physical_resource_id is 'failed-to-create' only in a create
\* invocation whose create_rate_based_rule call has not succeeded; it never
\* gets that value once the rule exists, nor in an update or a delete.
C9_FailedToCreateOnlyWithoutRule ==
    physical_resource_id = "failed-to-create"
      => /\ request_type = "Create"
         /\ ~RuleCreated

\* the get_change_token (line 42) or the create_rate_based_rule (line 43)
\* of create raised a service error
CreateCallRaised ==
    /\ request_type = "Create"
    /\ \/ /\ Len(calls) >= 1
          /\ calls[1] = Call("get_change_token", 0, "ClientError")
       \/ /\ Len(calls) >= 2
          /\ calls[2].op = "create_rate_based_rule"
          /\ calls[2].result = "ClientError"

\* C10: when get_change_token or create_rate_based_rule raises a service
\* error in create, create signals fail, physical_resource_id is
\* 'failed-to-create', and the invocation makes no status query and no
\* update_rate_based_rule call.
C10_CreateErrorMarksFailedToCreate ==
    CreateCallRaised
      => /\ pc = "done"
         /\ signals = <<Signal("fail", "ClientError")>>
         /\ physical_resource_id = "failed-to-create"
         /\ ~polled
         /\ \A c \in SeqRange(calls) :
               c.op \notin {"update_rate_based_rule", "wait_on_status"}
         /\ calls[Len(calls)].result = "ClientError"

\* C10 witness: create_rate_based_rule raised after a change token was obtained
C10_Witness ==
    /\ CreateCallRaised
    /\ Len(calls) = 2
    /\ calls[1].result = "ok"
    /\ pc = "done"


\* the entries of calls of waits whose status query raised a service error
RaisedWaits ==
    {i \in 1..Len(calls) : calls[i] = Call("wait_on_status", calls[i].ChangeToken, "ClientError")}

\* C11: when get_change_token_status raises a service error during a wait,
\* the invocation signals fail, physical_resource_id becomes
\* 'failed-to-create', and the handler that waited makes no further call on
\* the service and signals no success afterwards.
C11_StatusErrorEndsInvocation ==
    \A i \in RaisedWaits :
        /\ i = Len(calls)
        /\ physical_resource_id = "failed-to-create"
        /\ signals # <<>>
        /\ LastSignal = Signal("fail", "ClientError")
        /\ pc \in {"create_after_wait", "update_after_wait", "delete_after_wait", "aborted"}

\* C11 witness: the status query of the full-removal update of a delete
\* raised, and the invocation has ended
C11_Witness ==
    /\ request_type = "Delete"
    /\ RaisedWaits = {3}
    /\ pc = "aborted"


\* the entries of calls where the service answered delete_rate_based_rule
\* with the does-not-exist error
NonexistentAnswers ==
    {i \in 1..Len(calls) :
        calls[i].op = "delete_rate_based_rule"
          /\ calls[i].result = "WAFNonexistentItemException"}

\* C12: when the service answers delete_rate_based_rule with the
\* does-not-exist error, the final completion signal of the delete
\* invocation is success, whatever the full-removal update did before.
C12_NonexistentRuleIsSuccess ==
    NonexistentAnswers # {}
      => /\ pc = "done"
         /\ LastSignal = Signal("success", "none")
         /\ NonexistentAnswers = {Len(calls)}

\* C12 witness: the full-removal update failed, then the delete call was
\* answered with the does-not-exist error
C12_Witness ==
    /\ request_type = "Delete"
    /\ NonexistentAnswers # {}
    /\ Len(signals) = 2
    /\ signals[1].signal = "fail"

\* the full-removal update of a delete request has run its reconciliation
FullRemovalReconciled ==
    /\ request_type = "Delete"
    /\ pc \notin {"handler", "delete", "update"}

\* C13: update with remove_all = true emits no INSERT and exactly one DELETE
\* for every element of the previous collection, in its order, and neither
\* reads nor validates the requested Updates: it emits the same for an
\* absent list and for a list with invalid predicates.
C13_FullRemovalDeletesEveryPrevious ==
    FullRemovalReconciled
      => /\ Emitted
         /\ updates.Updates[2] = <<>>
         /\ Len(updates.Updates[1]) = Len(old_predicates.items)
         /\ \A k \in 1..Len(old_predicates.items) :
               /\ updates.Updates[1][k].Action = "DELETE"
               /\ updates.Updates[1][k].Predicate = old_predicates.items[k]
         /\ Signal("fail", "MissingFields") \notin SeqRange(signals)
         /\ error \notin {"KeyError"}
         /\ (pc = "aborted" => RaisedWaits # {})

\* C13 witness: a full removal of two previous predicates in a request whose
\* Updates list holds a predicate without Type
C13_Witness ==
    /\ FullRemovalReconciled
    /\ MatchPredicates.kind = "list"
    /\ Len(MatchPredicates.items) = 2
    /\ Updates.present
    /\ ~AllValid(Updates.list)
    /\ Len(updates.Updates[1]) = 2


\* an Update request with an empty requested list and a non-empty previous
\* collection has run its reconciliation
EmptyRequestReconciled ==
    /\ Reconciled
    /\ Updates.present
    /\ Updates.list = <<>>
    /\ old_predicates.items # <<>>

\* C14 as stated: update with an empty requested Updates list, remove_all =
\* false and a non-empty previous predicate set emits zero DELETE operations.
C14_EmptyRequestDeletesNothing ==
    EmptyRequestReconciled => updates.Updates[1] = <<>>

\* C14 amended: update with an empty requested Updates list, remove_all =
\* false and a non-empty previous predicate set emits one DELETE for every
\* previous predicate and no INSERT.
C14_EmptyRequestDeletesAll ==
    EmptyRequestReconciled
      => /\ Emitted
         /\ updates.Updates[2] = <<>>
         /\ Len(updates.Updates[1]) = Len(old_predicates.items)
         /\ \A k \in 1..Len(old_predicates.items) :
               updates.Updates[1][k] = [Action |-> "DELETE",
                                        Predicate |-> old_predicates.items[k]]

\* C14 witness: an empty request against two previous predicates
C14_Witness ==
    /\ EmptyRequestReconciled
    /\ MatchPredicates.kind = "list"
    /\ Len(MatchPredicates.items) = 2
    /\ Len(updates.Updates[1]) = 2

CallsOf(ops) == {i \in 1..Len(calls) : calls[i].op \in ops}
MutatingOps == {"create_rate_based_rule", "update_rate_based_rule", "delete_rate_based_rule"}
TokensObtained == {i \in CallsOf({"get_change_token"}) : calls[i].result = "ok"}

\* C15 as stated: a handler invocation performs one change-token cycle: it
\* obtains no second change token, issues no second mutating call and runs
\* no second wait.
C15_SingleTokenCycle ==
    /\ Cardinality(TokensObtained) <= 1
    /\ Cardinality(CallsOf(MutatingOps)) <= 1
    /\ Cardinality(CallsOf({"wait_on_status"})) <= 1

\* the change-token cycles a request is built to run: one for an Update and
\* for a Create without Updates, two for a Delete (full-removal update, then
\* delete) and for a Create with Updates (create, then update)
CyclesOf(type, withUpdates) ==
    IF type = "Update" \/ (type = "Create" /\ ~withUpdates) THEN 1 ELSE 2

\* C15 amended: an Update invocation and a Create without Updates perform at
\* most one change-token cycle, a Delete and a Create with Updates at most
\* two (one per mutating call); a cycle obtains one change token, issues at
\* most one mutating call with it and runs at most one wait, and no
\* invocation obtains a token beyond its cycles.
C15_OneCyclePerMutatingCall ==
    /\ Cardinality(TokensObtained) <= CyclesOf(request_type, Updates.present)
    /\ Cardinality(CallsOf(MutatingOps)) <= Cardinality(TokensObtained)
    /\ Cardinality(CallsOf({"wait_on_status"})) <= Cardinality(CallsOf(MutatingOps))
    /\ \A i \in CallsOf(MutatingOps) : \A j \in CallsOf(MutatingOps) :
          calls[i].ChangeToken = calls[j].ChangeToken => i = j

\* C15 witness: a delete that ran both of its cycles to the end
C15_Witness ==
    /\ request_type = "Delete"
    /\ pc = "done"
    /\ Cardinality(TokensObtained) = 2
    /\ Cardinality(CallsOf(MutatingOps)) = 2
    /\ Cardinality(CallsOf({"wait_on_status"})) = 2


\* a create request without Updates whose get_change_token and
\* create_rate_based_rule succeeded and whose wait saw INSYNC
PlainCreateConverged ==
    /\ request_type = "Create"
    /\ ~Updates.present
    /\ Len(calls) >= 3
    /\ calls[1].result = "ok"
    /\ calls[2].result = "ok"
    /\ calls[3].result = "INSYNC"
    /\ pc # "create_after_wait"

\* C16: a create request without Updates in which get_change_token and
\* create_rate_based_rule succeed and the status becomes INSYNC within the
\* retries makes one get_change_token and one create_rate_based_rule call,
\* no update_rate_based_rule and no delete_rate_based_rule call, ends with
\* the signal success, and leaves the service's RuleId in
\* physical_resource_id.
C16_PlainCreateSucceeds ==
    PlainCreateConverged
      => /\ pc = "done"
         /\ Cardinality(CallsOf({"get_change_token"})) = 1
         /\ Cardinality(CallsOf({"create_rate_based_rule"})) = 1
         /\ CallsOf({"update_rate_based_rule", "delete_rate_based_rule"}) = {}
         /\ Cardinality(CallsOf({"wait_on_status"})) = 1
         /\ signals = <<Signal("success", "Create is done.")>>
         /\ physical_resource_id = "rule-1"

\* C16 witness: such a create at its end
C16_Witness ==
    /\ PlainCreateConverged
    /\ pc = "done"
    /\ calls = <<Call("get_change_token", 1, "ok"),
                 Call("create_rate_based_rule", 1, "ok"),
                 Call("wait_on_status", 1, "INSYNC")>>

\* C17: within one invocation each of create_rate_based_rule,
\* update_rate_based_rule and delete_rate_based_rule is issued at most once,
\* so a mutating call that failed, or whose wait ran out of retries, is not
\* issued again; the status query is the only call made again for the same
\* change.
C17_NoRetryOfMutatingCalls ==
    /\ \A op \in MutatingOps : Cardinality(CallsOf({op})) <= 1
    /\ \A i \in CallsOf({"get_change_token"}) :
          calls[i].result = "ClientError"
            => \A j \in (i + 1)..Len(calls) :
                  calls[j].op # "update_rate_based_rule"
                    /\ (request_type # "Delete" => calls[j].op # "get_change_token")

\* C17 witness: an update whose mutating call failed and was not repeated,
\* in a delete that went on after it
C17_Witness ==
    /\ request_type = "Delete"
    /\ pc = "done"
    /\ \E i \in CallsOf({"update_rate_based_rule"}) : calls[i].result = "ClientError"
    /\ \E i \in CallsOf({"delete_rate_based_rule"}) : calls[i].result = "ok"
    /\ calls[Len(calls)] = Call("wait_on_status", 2, "MaxRetries")


AfterWaitPositions == {"create_after_wait", "update_after_wait", "delete_after_wait"}

\* C18: every return of wait_on_status hands its caller a status record with
\* a Success field, also when the status query raised a service error, and
\* no handler ends in an unhandled error when it reads Success.
C18_WaitAlwaysReturnsStatus ==
    /\ pc \in AfterWaitPositions => wait_result \in {InSync, MaxRetriesReached}
    /\ error # "TypeError" \/ RaisedWaits = {}

\* C19: update with remove_all = false and only valid requested predicates
\* gets through its reconciliation to the submission of the change set for
\* every previous predicate collection: taking the matched predicate (or
\* None) out of the working collection raises nothing.
C19_ValidRequestIsSubmitted ==
    (Reconciled /\ Updates.present /\ AllValid(Updates.list))
      => ~(pc = "aborted" /\ calls = <<>>)

\* C20: every mutating call carries the change token of the
\* get_change_token call made right before it, no change token is used for
\* two mutating calls, and every wait polls the token of the mutating call
\* right before it.
C20_FreshTokenPerMutatingCall ==
    /\ \A i \in CallsOf(MutatingOps) :
          /\ i > 1
          /\ calls[i - 1].op = "get_change_token"
          /\ calls[i - 1].result = "ok"
          /\ calls[i - 1].ChangeToken = calls[i].ChangeToken
          /\ \A j \in CallsOf(MutatingOps) :
                j # i => calls[j].ChangeToken # calls[i].ChangeToken
    /\ \A i \in TokensObtained : \A j \in TokensObtained :
          i # j => calls[i].ChangeToken # calls[j].ChangeToken
    /\ \A k \in CallsOf({"wait_on_status"}) :
          /\ k > 1
          /\ calls[k - 1].op \in MutatingOps
          /\ calls[k - 1].result = "ok"
          /\ calls[k - 1].ChangeToken = calls[k].ChangeToken
    /\ pc = "wait_on_status"
          => /\ calls # <<>>
             /\ calls[Len(calls)].op \in MutatingOps
             /\ calls[Len(calls)].ChangeToken = wait.change_token

\* C20 witness: a create with Updates that ran two mutating calls and two
\* waits, the second on the second token
C20_Witness ==
    /\ request_type = "Create"
    /\ pc = "done"
    /\ Cardinality(CallsOf(MutatingOps)) = 2
    /\ Cardinality(CallsOf({"wait_on_status"})) = 2
    /\ calls[Len(calls)] = Call("wait_on_status", 2, "INSYNC")

====
